---- MODULE Spec2Model ----
(***************************************************************************)
(* The OTP (2FA) operations of the login core, src/src/core/login/otp.js,  *)
(* over one logged-in account: its in-memory login tree, its on-disk       *)
(* stash tree and the login server's OTP configuration for it.             *)
(*                                                                         *)
(* otp.js builds LoginKits and requests and hands them to applyKit,        *)
(* serverLogin and loginFetch (login.js, login-fetch.js), which are not    *)
(* among the sources; those are modelled from sections 4.1-4.3 and 6 of    *)
(* the specification.                                                      *)
(*                                                                         *)
(* src/unnamed/part_001 is another revision of otp.js whose repairOtp      *)
(* checks the account and looks up the stash node differently; both are    *)
(* modelled.  The password, PIN and recovery2 operations that the tests of *)
(* src/unnamed/part_000 exercise (abc.js) are not among the sources        *)
(* either; they are modelled from sections 4.3, 4.5 and 4.6.               *)
(***************************************************************************)
EXTENDS Integers, Sequences, FiniteSets, TLC

VARIABLES
  loginTree,   \* ai.props.state.accounts[accountId].loginTree, nodes in pre-order
  stashTree,   \* the stash tree of the user as persisted, nodes in pre-order
  server,      \* the login server's OTP configuration of the account
  calls,       \* one record per call slot: the position of an async call
  lastOk,      \* name of the operation that resolved most recently
  opts,        \* EdgeAccountOptions handed to getStashOtp
  otpResult,   \* what getStashOtp returned
  authState,   \* password, PIN and recovery2 data of device, session and server
  located,     \* the stash node repairOtp hands to serverLogin
  fetchState,  \* one fetchCors call: its XMLHttpRequest and its promise
  root         \* root.ts: allContexts, the contexts and the makeContext calls

vars == <<loginTree, stashTree, server, calls, lastOk, opts, otpResult, authState,
          located, fetchState, root>>

----------------------------------------------------------------------------
\* Bounds of the model.

NumCalls == 2      \* call slots (calls that may overlap)
NumKeys == 2       \* distinct normalized OTP secrets
NumTimeouts == 1   \* distinct otpTimeout values
MaxTime == 2       \* clock values
MaxNodes == 4      \* nodes of a stash tree
NumMakers == 2     \* makeContext calls that may be in flight together
MaxContexts == 3   \* contexts created in one run

----------------------------------------------------------------------------
\* Optional values: undefined / null is the empty set, a value v is {v}.

Absent == {}
Some(v) == {v}
IsNull(x) == x = {}
Get(x) == CHOOSE v \in x : TRUE

Procs == 1..NumCalls
Letters == <<"A", "B", "C", "D">>
\* Secrets are strings, kept as tuples of characters.
Keys == {<<"K", Letters[i]>> : i \in 1..NumKeys}
\* A secret as a user may have typed it: not normalized.
RawKeys == {<<"k", "a">>}
Timeouts == 1..NumTimeouts
Times == 1..MaxTime
ResetDates == {"D1"}
\* Usernames are strings too.
Usernames == {<<"a", "l">>, <<"b", "o">>}
ResetTokens == {"tok1", "tok2"}

OtpPath == "/v2/login/otp"
LoginPath == "/v2/login"
RootId == "id0"
ChildId == "id1"

----------------------------------------------------------------------------
\* Helpers of hotp.js, login-selectors.js and login.js.

Upper(c) == CASE c = "k" -> "K" [] c = "a" -> "A" [] c = "b" -> "B" [] OTHER -> c

\* fixOtpKey: re-encodes a base32 secret in canonical (upper-case) form.
fixOtpKey(key) == [i \in DOMAIN key |-> Upper(key[i])]

\* totp at the current time step: a function of the secret alone.
totp(key) == <<"totp">> \o key

\* hashUsername: the scrypt hash of the username; base64.stringify encodes it.
hashUsername(username) == <<"scrypt">> \o username
base64Stringify(bytes) == <<"b64">> \o bytes

Min(S) == CHOOSE x \in S : \A y \in S : x <= y

\* searchTree with the predicate node[field] === value: index of the first
\* node in pre-order that satisfies it, 0 when there is none.
searchTree(tree, field, value) ==
  LET hits == {i \in DOMAIN tree : tree[i][field] = value}
  IN IF hits = {} THEN 0 ELSE Min(hits)

\* Merge of a kit's partial into a node: every field of the partial
\* overwrites, a field set to undefined is deleted.
MergeNode(node, partial) ==
  [f \in DOMAIN node |-> IF f \in DOMAIN partial THEN partial[f] ELSE node[f]]

MergeTree(tree, loginId, partial) ==
  LET i == searchTree(tree, "loginId", loginId)
  IN IF i = 0 THEN tree ELSE [tree EXCEPT ![i] = MergeNode(tree[i], partial)]

NodeById(tree, loginId) == tree[searchTree(tree, "loginId", loginId)]

----------------------------------------------------------------------------
\* otp.js: pure parts.

\* getLoginOtp
getLoginOtp(login) ==
  IF ~IsNull(login.otpKey) THEN Some(totp(Get(login.otpKey))) ELSE Absent

DigitChars == {"0", "1", "2", "3", "4", "5", "6", "7", "8", "9"}

\* /[0-9]+/.test(otp): the pattern is not anchored, it finds a digit anywhere.
RegexDigitsTest(s) == \E i \in DOMAIN s : s[i] \in DigitChars

\* getStashOtp
getStashOtp(stash, o) ==
  LET otp == o.otp
      otpKey == IF IsNull(o.otpKey) THEN stash.otpKey ELSE o.otpKey
  IN IF ~IsNull(otp)
       THEN IF RegexDigitsTest(Get(otp)) /\ Len(Get(otp)) < 16
              THEN otp
              ELSE Some(totp(Get(otp)))
       ELSE IF ~IsNull(otpKey) THEN Some(totp(Get(otpKey))) ELSE Absent

\* enableOtp: the secret to enable.
\* enableOtp that draws a new secret every time.
EnableKeyAlwaysRandom(tree, random) == random

\* enableOtp: the secret, reused and normalized if the tree has one.
EnableKey(tree, random) ==
  IF ~IsNull(tree[1].otpKey) THEN fixOtpKey(Get(tree[1].otpKey)) ELSE random

\* enableOtp with a stash partial that forgets the secret.
EnableKitNoStashKey(tree, otpKey, otpTimeout) ==
  [ serverMethod |-> Absent,
    serverPath |-> OtpPath,
    server |-> Some([otpKey |-> Some(otpKey), otpTimeout |-> Some(otpTimeout)]),
    stash |-> [otpResetDate |-> Absent, otpTimeout |-> Some(otpTimeout)],
    login |-> [otpKey |-> Some(otpKey), otpResetDate |-> Absent,
               otpTimeout |-> Some(otpTimeout)],
    loginId |-> tree[1].loginId ]

\* enableOtp: the kit.
EnableKit(tree, otpKey, otpTimeout) ==
  [ serverMethod |-> Absent,
    serverPath |-> OtpPath,
    server |-> Some([otpKey |-> Some(otpKey), otpTimeout |-> Some(otpTimeout)]),
    stash |-> [otpKey |-> Some(otpKey), otpResetDate |-> Absent,
               otpTimeout |-> Some(otpTimeout)],
    login |-> [otpKey |-> Some(otpKey), otpResetDate |-> Absent,
               otpTimeout |-> Some(otpTimeout)],
    loginId |-> tree[1].loginId ]

\* disableOtp with a login partial that leaves otpTimeout in the tree.
DisableKitKeepsTimeout(tree) ==
  [ serverMethod |-> Some("DELETE"),
    serverPath |-> OtpPath,
    server |-> Absent,
    stash |-> [otpKey |-> Absent, otpResetDate |-> Absent, otpTimeout |-> Absent],
    login |-> [otpKey |-> Absent, otpResetDate |-> Absent],
    loginId |-> tree[1].loginId ]

\* disableOtp: the kit. It names a method and a path and has no `server`.
DisableKit(tree) ==
  [ serverMethod |-> Some("DELETE"),
    serverPath |-> OtpPath,
    server |-> Absent,
    stash |-> [otpKey |-> Absent, otpResetDate |-> Absent, otpTimeout |-> Absent],
    login |-> [otpKey |-> Absent, otpResetDate |-> Absent, otpTimeout |-> Absent],
    loginId |-> tree[1].loginId ]

\* The check with && for ||.
CancelRefusedBoth(tree) == IsNull(tree[1].otpTimeout) /\ IsNull(tree[1].otpKey)

\* cancelOtpReset: the check that 2FA is enabled.
CancelRefused(tree) == IsNull(tree[1].otpTimeout) \/ IsNull(tree[1].otpKey)

\* cancelOtpReset with partials that drop otpTimeout along with the date.
CancelKitDropsTimeout(tree) ==
  [ serverMethod |-> Absent,
    serverPath |-> OtpPath,
    server |-> Some([otpKey |-> tree[1].otpKey, otpTimeout |-> tree[1].otpTimeout]),
    stash |-> [otpResetDate |-> Absent, otpTimeout |-> Absent],
    login |-> [otpResetDate |-> Absent, otpTimeout |-> Absent],
    loginId |-> tree[1].loginId ]

\* cancelOtpReset: the kit.
CancelKit(tree) ==
  [ serverMethod |-> Absent,
    serverPath |-> OtpPath,
    server |-> Some([otpKey |-> tree[1].otpKey, otpTimeout |-> tree[1].otpTimeout]),
    stash |-> [otpResetDate |-> Absent],
    login |-> [otpResetDate |-> Absent],
    loginId |-> tree[1].loginId ]

\* resetOtp sending the username as it is.
ResetRequestPlain(username, resetToken) ==
  [ userId |-> username, otpResetAuth |-> resetToken ]

\* resetOtp: the request body.
ResetRequest(username, resetToken) ==
  [ userId |-> base64Stringify(hashUsername(username)),
    otpResetAuth |-> resetToken ]

\* resetOtp: what it resolves to, given the server's reply.
ResetResult(reply) == reply.otpResetDate

\* repairOtp whose request leaves the code to serverLogin.
RepairRequestNoOtp(login, otpKey) ==
  [ userId |-> login.userId,
    passwordAuth |-> base64Stringify(Get(login.passwordAuth)),
    otp |-> Absent ]

\* repairOtp: the request body.
RepairRequest(login, otpKey) ==
  [ userId |-> login.userId,
    passwordAuth |-> base64Stringify(Get(login.passwordAuth)),
    otp |-> Some(totp(otpKey)) ]

\* repairOtp: the options handed to serverLogin.
RepairOpts(stash) == [now |-> stash[1].lastLogin, otp |-> Absent, otpKey |-> Absent]

----------------------------------------------------------------------------
\* login.js and the login server, from sections 4.2, 4.3 and 6.

\* applyKit step 1: the server is contacted if kit.server is present.
HasServerStep(kit) == ~IsNull(kit.server)

KitRequest(kit) ==
  [ method |-> IF IsNull(kit.serverMethod) THEN "POST" ELSE Get(kit.serverMethod),
    path |-> kit.serverPath,
    data |-> kit.server ]

\* What applyKit does when the server does not answer with success.
OnServerFailure == "failed"

\* The server's OTP configuration after it accepted an applyKit request.
ServerApply(srv, req) ==
  IF req.path = OtpPath /\ req.method = "DELETE"
    THEN [otpKey |-> Absent, otpTimeout |-> Absent, otpResetDate |-> Absent]
    ELSE IF req.path = OtpPath /\ ~IsNull(req.data)
      THEN [otpKey |-> Get(req.data).otpKey,
            otpTimeout |-> Get(req.data).otpTimeout,
            otpResetDate |-> Absent]
      ELSE srv

\* The server lets a login in when it has no OTP secret for the account or
\* the request carries the code of its secret; otherwise "OTP required".
ServerAcceptsLogin(srv, body) ==
  IF IsNull(srv.otpKey) THEN TRUE ELSE body.otp = Some(totp(Get(srv.otpKey)))

\* serverLogin step 1: an OTP code resolvable from the options or the stash
\* is attached to a request that carries none.
LoginRequest(stash, o, request) ==
  IF IsNull(request.otp)
    THEN [request EXCEPT !.otp = getStashOtp(stash, o)]
    ELSE request

\* serverLogin step 3: the reset-pending date the OtpError carries is the one
\* found in the payload of the "OTP required" answer, if any.
OtpErrorResetDate(payload) == payload.otpResetDate

\* serverLogin step 4: the kit that stamps lastLogin = now ?? current time.
StampLastLogin(o, clock) == IF IsNull(o.now) THEN Some(clock) ELSE o.now

----------------------------------------------------------------------------
\* State.

IdleCall ==
  [ op |-> "idle", pc |-> "idle", kit |-> Absent, sent |-> <<>>,
    pre |-> Absent, wrote |-> FALSE, err |-> "", ret |-> Absent,
    reply |-> Absent, cand |-> Absent, username |-> <<>>, token |-> "",
    opts |-> Absent, after |-> "none", resetDate |-> Absent, account |-> "" ]

Settled(p) == calls[p].pc \in {"idle", "done", "failed"}
AllSettled == \A p \in Procs : Settled(p)

\* A call starts in the first free slot.
Free(p) == Settled(p) /\ \A q \in Procs : q < p => ~Settled(q)

\* The slots once a call has started in slot p: the records of the calls
\* that had settled are dropped.
Started(p, call) ==
  [q \in Procs |-> IF q = p THEN call ELSE IF Settled(q) THEN IdleCall ELSE calls[q]]

NewCall(op) ==
  [ IdleCall EXCEPT !.op = op,
      !.pre = Some([tree |-> loginTree, stash |-> stashTree, server |-> server]),
      !.after = lastOk ]

TreeNode(loginId, appId, key, timeout, reset, auth) ==
  [ loginId |-> loginId, appId |-> appId, userId |-> <<"b64", "scrypt", "a", "l">>,
    otpKey |-> key, otpTimeout |-> timeout, otpResetDate |-> reset,
    passwordAuth |-> auth, lastLogin |-> Absent, username |-> Some(<<"a", "l">>) ]

StashNode(loginId, appId, key, timeout, reset, last) ==
  [ loginId |-> loginId, appId |-> appId, userId |-> <<"b64", "scrypt", "a", "l">>,
    otpKey |-> key, otpTimeout |-> timeout, otpResetDate |-> reset,
    lastLogin |-> last ]

Opt(S) == {Absent} \cup {Some(v) : v \in S}

ServerConfigs ==
  {[otpKey |-> Absent, otpTimeout |-> Absent, otpResetDate |-> Absent]}
  \cup [otpKey : {Some(k) : k \in Keys}, otpTimeout : {Some(t) : t \in Timeouts},
        otpResetDate : Opt(ResetDates)]

NoOpts == [otp |-> Absent, otpKey |-> Absent]
NoResult == [called |-> FALSE, value |-> Absent]
NoAuth == [op |-> "none"]
NoLocated == [called |-> FALSE]
NoFetch == [pc |-> "none"]
NoRoot == [allContexts |-> <<>>]

\* A logged-in account: the tree was built from the stash at login, so the
\* two agree; the server may hold another secret than the device.
Init ==
  \E key \in Opt(Keys \cup RawKeys), timeout \in Opt(Timeouts),
     reset \in Opt(ResetDates), last \in Opt(Times), auth \in Opt({<<"auth">>}) :
    /\ loginTree = << TreeNode(RootId, "", key, timeout, reset, auth),
                      TreeNode(ChildId, "app", Absent, Absent, Absent, Absent) >>
    /\ stashTree = << StashNode(RootId, "", key, timeout, reset, last),
                      StashNode(ChildId, "app", Absent, Absent, Absent, Absent) >>
    /\ server \in ServerConfigs
    /\ calls = [p \in Procs |-> IdleCall]
    /\ lastOk = "none"
    /\ opts = NoOpts
    /\ otpResult = NoResult
    /\ authState = NoAuth
    /\ located = NoLocated
    /\ fetchState = NoFetch
    /\ root = NoRoot

\* The same account when device and server agree on the OTP configuration.
InitConc ==
  /\ Init
  /\ loginTree[1].otpKey \in Opt(Keys)
  /\ ~IsNull(loginTree[1].passwordAuth)
  /\ IsNull(stashTree[1].lastLogin)
  /\ server.otpKey = loginTree[1].otpKey
  /\ IsNull(server.otpKey) \/ server.otpResetDate = loginTree[1].otpResetDate

----------------------------------------------------------------------------
\* applyKit, started by enableOtp, disableOtp and cancelOtpReset.

\* The call up to applyKit's first suspension: the request is on its way,
\* or, without a server step, the stash merge is next.
BeginKit(p, op, kit) ==
  calls' = Started(p,
    [ NewCall(op) EXCEPT !.kit = Some(kit),
        !.pc = IF HasServerStep(kit) THEN "server" ELSE "stash",
        !.sent = IF HasServerStep(kit) THEN <<KitRequest(kit)>> ELSE <<>> ])

\* enableOtp that puts the kit's fields into the tree before the server has
\* answered.
enableOtpOptimistic(p, otpTimeout, random) ==
  /\ Free(p)
  /\ BeginKit(p, "enableOtp",
              EnableKit(loginTree, EnableKey(loginTree, random), otpTimeout))
  /\ loginTree' = MergeTree(loginTree, loginTree[1].loginId,
       EnableKit(loginTree, EnableKey(loginTree, random), otpTimeout).login)
  /\ UNCHANGED <<stashTree, server, lastOk, opts, otpResult, authState, located, fetchState, root>>

enableOtp(p, otpTimeout, random) ==
  /\ Free(p)
  /\ BeginKit(p, "enableOtp",
              EnableKit(loginTree, EnableKey(loginTree, random), otpTimeout))
  /\ UNCHANGED <<loginTree, stashTree, server, lastOk, opts, otpResult, authState, located, fetchState, root>>

disableOtp(p) ==
  /\ Free(p)
  /\ BeginKit(p, "disableOtp", DisableKit(loginTree))
  /\ UNCHANGED <<loginTree, stashTree, server, lastOk, opts, otpResult, authState, located, fetchState, root>>

cancelOtpReset(p) ==
  /\ Free(p)
  /\ IF CancelRefused(loginTree)
       THEN calls' = Started(p,
              [NewCall("cancelOtpReset") EXCEPT !.pc = "failed", !.err = "config"])
       ELSE BeginKit(p, "cancelOtpReset", CancelKit(loginTree))
  /\ UNCHANGED <<loginTree, stashTree, server, lastOk, opts, otpResult, authState, located, fetchState, root>>

\* The server accepted the request of the kit.
ApplyKitServerOk(p) ==
  /\ calls[p].pc = "server"
  /\ server' = ServerApply(server, calls[p].sent[1])
  /\ calls' = [calls EXCEPT ![p].pc = "stash"]
  /\ UNCHANGED <<loginTree, stashTree, lastOk, opts, otpResult, authState, located, fetchState, root>>

\* The request failed or the server answered with a non-success status.
ApplyKitServerFail(p) ==
  /\ calls[p].pc = "server"
  /\ calls' = [calls EXCEPT ![p].pc = OnServerFailure, ![p].err = "server"]
  /\ UNCHANGED <<loginTree, stashTree, server, lastOk, opts, otpResult, authState, located, fetchState, root>>

\* Step 2: merge kit.stash into the stash node and persist the stash.
ApplyKitStash(p) ==
  /\ calls[p].pc = "stash"
  /\ stashTree' = MergeTree(stashTree, Get(calls[p].kit).loginId, Get(calls[p].kit).stash)
  /\ calls' = [calls EXCEPT ![p].pc = "tree", ![p].wrote = TRUE]
  /\ UNCHANGED <<loginTree, server, lastOk, opts, otpResult, authState, located, fetchState, root>>

\* Step 2 when the disk write fails: a fatal stash-write error.
ApplyKitStashFail(p) ==
  /\ calls[p].pc = "stash"
  /\ calls' = [calls EXCEPT ![p].pc = "failed", ![p].err = "stash-write"]
  /\ UNCHANGED <<loginTree, stashTree, server, lastOk, opts, otpResult, authState, located, fetchState, root>>

\* Step 3: merge kit.login into the tree node; the call resolves.
ApplyKitTree(p) ==
  /\ calls[p].pc = "tree"
  /\ loginTree' = MergeTree(loginTree, Get(calls[p].kit).loginId, Get(calls[p].kit).login)
  /\ calls' = [calls EXCEPT ![p].pc = "done"]
  /\ lastOk' = calls[p].op
  /\ UNCHANGED <<stashTree, server, opts, otpResult, authState, located, fetchState, root>>

----------------------------------------------------------------------------
\* resetOtp.

resetOtp(p, username, resetToken) ==
  /\ Free(p)
  /\ calls' = Started(p,
       [ NewCall("resetOtp") EXCEPT !.pc = "fetch",
           !.username = username, !.token = resetToken,
           !.sent = << [ method |-> "DELETE", path |-> OtpPath,
                         data |-> Some(ResetRequest(username, resetToken)) ] >> ])
  /\ UNCHANGED <<loginTree, stashTree, server, lastOk, opts, otpResult, authState, located, fetchState, root>>

\* The server schedules the reset and reports its date.
ResetOtpOk(p, date) ==
  /\ calls[p].pc = "fetch"
  /\ ~IsNull(server.otpKey)
  /\ server' = [server EXCEPT !.otpResetDate = Some(date)]
  /\ LET reply == [otpResetDate |-> date]
     IN calls' = [calls EXCEPT ![p].pc = "done", ![p].reply = Some(reply),
                                ![p].ret = Some(ResetResult(reply))]
  /\ lastOk' = "resetOtp"
  /\ UNCHANGED <<loginTree, stashTree, opts, otpResult, authState, located, fetchState, root>>

ResetOtpFail(p) ==
  /\ calls[p].pc = "fetch"
  /\ calls' = [calls EXCEPT ![p].pc = "failed", ![p].err = "server"]
  /\ UNCHANGED <<loginTree, stashTree, server, lastOk, opts, otpResult, authState, located, fetchState, root>>

----------------------------------------------------------------------------
\* repairOtp and serverLogin.

AccountIds == {"account0", "unknown"}

\* ai.props.state.accounts[accountId] == null
AccountMissing(accountId) == accountId # "account0"

\* getStashById(ai, login.loginId).stash
getStashById(loginId) == NodeById(stashTree, loginId)

\* repairOtp that stores the candidate key in the stash before the server has
\* answered.
repairOtpStoresFirst(p, accountId, otpKey) ==
  /\ Free(p)
  /\ LET login == loginTree[1]
         stash == getStashById(login.loginId)
         o == RepairOpts(stashTree)
     IN calls' = Started(p,
          IF AccountMissing(accountId)
            THEN [NewCall("repairOtp") EXCEPT !.pc = "done", !.cand = Some(otpKey),
                                              !.account = accountId]
          ELSE IF IsNull(login.passwordAuth)
            THEN [NewCall("repairOtp") EXCEPT !.pc = "failed", !.err = "no-password",
                                              !.cand = Some(otpKey),
                                              !.account = accountId]
          ELSE [ NewCall("repairOtp") EXCEPT !.pc = "login", !.cand = Some(otpKey),
                   !.account = accountId, !.opts = Some(o),
                   !.sent = << [ method |-> "POST", path |-> LoginPath,
                                 data |-> Some(LoginRequest(stash, o,
                                            RepairRequest(login, otpKey))) ] >> ])
  /\ lastOk' = IF AccountMissing(accountId) THEN "repairOtp" ELSE lastOk
  /\ stashTree' = MergeTree(stashTree, loginTree[1].loginId, [otpKey |-> Some(otpKey)])
  /\ UNCHANGED <<loginTree, server, opts, otpResult, authState, located, fetchState, root>>

repairOtp(p, accountId, otpKey) ==
  /\ Free(p)
  /\ LET login == loginTree[1]
         stash == getStashById(login.loginId)
         o == RepairOpts(stashTree)
     IN calls' = Started(p,
          IF AccountMissing(accountId)
            THEN [NewCall("repairOtp") EXCEPT !.pc = "done", !.cand = Some(otpKey),
                                              !.account = accountId]
          ELSE IF IsNull(login.passwordAuth)
            THEN [NewCall("repairOtp") EXCEPT !.pc = "failed", !.err = "no-password",
                                              !.cand = Some(otpKey),
                                              !.account = accountId]
          ELSE [ NewCall("repairOtp") EXCEPT !.pc = "login", !.cand = Some(otpKey),
                   !.account = accountId, !.opts = Some(o),
                   !.sent = << [ method |-> "POST", path |-> LoginPath,
                                 data |-> Some(LoginRequest(stash, o,
                                            RepairRequest(login, otpKey))) ] >> ])
  /\ lastOk' = IF AccountMissing(accountId) THEN "repairOtp" ELSE lastOk
  /\ UNCHANGED <<loginTree, stashTree, server, opts, otpResult, authState, located, fetchState, root>>

\* repairOtp as src/unnamed/part_001 has it: the account is checked for a
\* username and a password at once, and the stash node is searched by appId.
repairOtp_ts(p, accountId, otpKey) ==
  /\ Free(p)
  /\ LET login == loginTree[1]
         found == searchTree(stashTree, "appId", login.appId)
         o == RepairOpts(stashTree)
     IN calls' = Started(p,
          IF AccountMissing(accountId)
            THEN [NewCall("repairOtp") EXCEPT !.pc = "done", !.cand = Some(otpKey),
                                              !.account = accountId]
          ELSE IF IsNull(loginTree[1].username) \/ IsNull(login.passwordAuth)
            THEN [NewCall("repairOtp") EXCEPT !.pc = "failed", !.err = "missing-username",
                                              !.cand = Some(otpKey),
                                              !.account = accountId]
          ELSE IF found = 0
            THEN [NewCall("repairOtp") EXCEPT !.pc = "failed", !.err = "missing-stash",
                                              !.cand = Some(otpKey),
                                              !.account = accountId]
          ELSE IF IsNull(login.passwordAuth)
            THEN [NewCall("repairOtp") EXCEPT !.pc = "failed", !.err = "no-password",
                                              !.cand = Some(otpKey),
                                              !.account = accountId]
          ELSE [ NewCall("repairOtp") EXCEPT !.pc = "login", !.cand = Some(otpKey),
                   !.account = accountId, !.opts = Some(o),
                   !.sent = << [ method |-> "POST", path |-> LoginPath,
                                 data |-> Some(LoginRequest(stashTree[found], o,
                                            RepairRequest(login, otpKey))) ] >> ])
  /\ lastOk' = IF AccountMissing(accountId) THEN "repairOtp" ELSE lastOk
  /\ UNCHANGED <<loginTree, stashTree, server, opts, otpResult, authState, located, fetchState, root>>

\* The server lets the login in and replies with the login.
ServerLoginOk(p) ==
  /\ calls[p].pc = "login"
  /\ ServerAcceptsLogin(server, Get(calls[p].sent[1].data))
  /\ calls' = [calls EXCEPT ![p].pc = "stamp", ![p].reply = Some(server)]
  /\ UNCHANGED <<loginTree, stashTree, server, lastOk, opts, otpResult, authState, located, fetchState, root>>

\* The distinguished "OTP required" answer.
ServerLoginOtpRequired(p) ==
  /\ calls[p].pc = "login"
  /\ ~ServerAcceptsLogin(server, Get(calls[p].sent[1].data))
  /\ calls' = [calls EXCEPT ![p].pc = "failed", ![p].err = "otp",
                             ![p].reply = Some(server),
                             ![p].resetDate = OtpErrorResetDate(server)]
  /\ UNCHANGED <<loginTree, stashTree, server, lastOk, opts, otpResult, authState, located, fetchState, root>>

ServerLoginFail(p) ==
  /\ calls[p].pc = "login"
  /\ calls' = [calls EXCEPT ![p].pc = "failed", ![p].err = "server"]
  /\ UNCHANGED <<loginTree, stashTree, server, lastOk, opts, otpResult, authState, located, fetchState, root>>

\* Step 4: a fresh LoginTree is built from the reply and returned (repairOtp
\* drops it); lastLogin is stamped into the stash and the stash persisted.
ServerLoginStamp(p, clock) ==
  /\ calls[p].pc = "stamp"
  /\ stashTree' = [stashTree EXCEPT ![1] =
       MergeNode(stashTree[1],
                 [lastLogin |-> StampLastLogin(Get(calls[p].opts), clock)])]
  /\ calls' = [calls EXCEPT ![p].pc = "done", ![p].wrote = TRUE]
  /\ lastOk' = "repairOtp"
  /\ UNCHANGED <<loginTree, server, opts, otpResult, authState, located, fetchState, root>>

----------------------------------------------------------------------------
\* Specifications.

Start(p) ==
  \/ \E t \in Timeouts, k \in Keys : enableOtp(p, t, k)
  \/ disableOtp(p)
  \/ cancelOtpReset(p)
  \/ \E u \in Usernames, tok \in ResetTokens : resetOtp(p, u, tok)
  \/ \E a \in AccountIds, k \in Keys : repairOtp(p, a, k)
  \/ \E a \in AccountIds, k \in Keys : repairOtp_ts(p, a, k)

Step(p) ==
  \/ ApplyKitServerOk(p)
  \/ ApplyKitServerFail(p)
  \/ ApplyKitStash(p)
  \/ ApplyKitStashFail(p)
  \/ ApplyKitTree(p)
  \/ \E d \in ResetDates : ResetOtpOk(p, d)
  \/ ResetOtpFail(p)
  \/ ServerLoginOk(p)
  \/ ServerLoginOtpRequired(p)
  \/ ServerLoginFail(p)
  \/ \E c \in Times : ServerLoginStamp(p, c)

\* The operations that apply a kit.
StartKit(p) ==
  \/ \E t \in Timeouts, k \in Keys : enableOtp(p, t, k)
  \/ disableOtp(p)
  \/ cancelOtpReset(p)

KitStep(p) ==
  \/ ApplyKitServerOk(p)
  \/ ApplyKitServerFail(p)
  \/ ApplyKitStash(p)
  \/ ApplyKitStashFail(p)
  \/ ApplyKitTree(p)

\* One call at a time: the caller awaits each call before the next one, so
\* a single slot is in use.
Next == \E p \in {1} : Start(p) \/ Step(p)

Spec == Init /\ [][Next]_vars

\* Calls that apply kits may overlap: a call starts while another is
\* suspended at its server request or its disk write.
NextConc == \E p \in Procs : StartKit(p) \/ KitStep(p)

SpecConc == InitConc /\ [][NextConc]_vars

----------------------------------------------------------------------------
\* getStashOtp on its own: every combination of its inputs.

Code6 == <<"1", "2", "3", "4", "5", "6">>
ShortKeyWithDigit == <<"J", "B", "S", "W", "Y", "3", "D", "P">>
ShortKeyNoDigit == <<"J", "B", "S", "W">>
Digits16 == <<"1", "2", "3", "4", "5", "6", "7", "8",
              "9", "0", "1", "2", "3", "4", "5", "6">>
LongKey == <<"J", "B", "S", "W", "Y", "A", "D", "P",
             "E", "H", "P", "K", "A", "X", "D", "P">>
OtpInputs == {Code6, ShortKeyWithDigit, ShortKeyNoDigit, Digits16, LongKey}

InitStashOtp ==
  \E key \in Opt(Keys \cup RawKeys) :
    /\ loginTree = << TreeNode(RootId, "", key, Absent, Absent, Absent) >>
    /\ stashTree = << StashNode(RootId, "", key, Absent, Absent, Absent) >>
    /\ server = [otpKey |-> Absent, otpTimeout |-> Absent, otpResetDate |-> Absent]
    /\ calls = [p \in Procs |-> IdleCall]
    /\ lastOk = "none"
    /\ opts \in [otp : Opt(OtpInputs), otpKey : Opt(Keys)]
    /\ otpResult = NoResult
    /\ authState = NoAuth
    /\ located = NoLocated
    /\ fetchState = NoFetch
    /\ root = NoRoot

CallGetStashOtp ==
  /\ ~otpResult.called
  /\ otpResult' = [called |-> TRUE, value |-> getStashOtp(stashTree[1], opts)]
  /\ UNCHANGED <<loginTree, stashTree, server, calls, lastOk, opts, authState, located, fetchState, root>>

SpecStashOtp == InitStashOtp /\ [][CallGetStashOtp]_vars

----------------------------------------------------------------------------
\* Password, PIN and recovery2 of one account on one device (abc.js, exercised
\* by test/abc.js); from sections 4.3, 4.5, 4.6 and 6.

TestUsername == <<"j", "s", "0">>
Passwords == {<<"y", "7", "6", "8">>, <<"T", "e", "s", "t">>, <<"w", "r", "o", "n", "g">>}
Pins == {<<"1", "2", "3", "4">>, <<"4", "3", "2", "1">>}
QuestionLists == {<<"q1", "q2">>, <<"q2", "q1">>}
AnswerLists == [1..2 -> {"a1", "a2"}]
Recovery2Keys == {<<"r", "k", "1">>, <<"r", "k", "2">>}
TheLoginKey == <<"l", "k">>

\* The password-stretching key derivation, and the keyed hash.
scrypt(username, secret) == <<"scrypt">> \o username \o <<":">> \o secret
hmac(data, key) == <<"hmac", data>> \o key

\* Symmetric encryption: a box opens with the key that closed it.
encrypt(data, key) == [key |-> key, data |-> data]
decrypt(box, key) == IF box.key = key THEN Some(box.data) ELSE Absent

\* The proof the server verifies, and the key that unwraps the login key:
\* both derived from the answers in the order given.
recovery2Auth(key, answers) == [i \in DOMAIN answers |-> hmac(answers[i], key)]
recovery2UnlockKey(key, answers) == <<"scrypt">> \o key \o answers
recovery2Id(key, username) == hmac("id", key) \o username

Dev == authState.dev
NoLast == [op |-> "none", ok |-> FALSE, sent |-> FALSE, err |-> "", arg |-> <<>>,
           key |-> Absent, questions |-> Absent, r2 |-> Absent, pre |-> Absent]

\* The outcome of an operation: the new device and server state, what the
\* caller gets, and what has been set up so far.
Outcome(dev, last, set) ==
  authState' = [dev |-> dev, last |-> [last EXCEPT !.pre = Some(Dev)], set |-> set]
Result(op, arg, ok, sent, err) ==
  [NoLast EXCEPT !.op = op, !.arg = arg, !.ok = ok, !.sent = sent, !.err = err]
AuthFrame == UNCHANGED <<loginTree, stashTree, server, calls, lastOk, opts, otpResult, located, fetchState, root>>

\* createAccount(username, password, pin) has run: on this device (the stash is
\* populated, the account may be logged in) or on another one (empty storage).
InitAuth ==
  /\ \E password \in Passwords, pin \in Pins, here \in BOOLEAN, in \in BOOLEAN,
        net \in BOOLEAN :
       authState =
         [ dev |-> [ session |-> IF here /\ in
                       THEN Some([loginKey |-> TheLoginKey,
                                  passwordAuth |-> Some(scrypt(TestUsername, password))])
                       ELSE Absent,
                     stash |-> IF here
                       THEN [ passwordBox |-> Some(encrypt(TheLoginKey, scrypt(TestUsername, password))),
                              passwordAuth |-> Some(scrypt(TestUsername, password)),
                              pinBox |-> Some(encrypt(TheLoginKey, scrypt(TestUsername, pin))),
                              recovery2Key |-> Absent ]
                       ELSE [ passwordBox |-> Absent, passwordAuth |-> Absent,
                              pinBox |-> Absent, recovery2Key |-> Absent ],
                     srv |-> [ passwordAuth |-> scrypt(TestUsername, password),
                               passwordBox |-> encrypt(TheLoginKey, scrypt(TestUsername, password)),
                               recovery2 |-> Absent ],
                     network |-> net ],
           last |-> NoLast,
           set |-> [ password |-> password, pin |-> IF here THEN Some(pin) ELSE Absent,
                     recovery2 |-> Absent ] ]
  /\ loginTree = << >> /\ stashTree = << >>
  /\ server = [otpKey |-> Absent, otpTimeout |-> Absent, otpResetDate |-> Absent]
  /\ calls = [p \in Procs |-> IdleCall]
  /\ lastOk = "none"
  /\ opts = NoOpts
  /\ otpResult = NoResult
  /\ located = NoLocated
  /\ fetchState = NoFetch
  /\ root = NoRoot

LoggedIn == ~IsNull(Dev.session)
Session(loginKey, passwordAuth) == Some([loginKey |-> loginKey, passwordAuth |-> passwordAuth])

\* passwordSetup whose kit leaves the proof cached in the login as it was.
passwordSetupStaleLogin(password) ==
  /\ LoggedIn
  /\ IF Dev.network
       THEN Outcome(
              [Dev EXCEPT
                 !.srv.passwordAuth = scrypt(TestUsername, password),
                 !.srv.passwordBox = encrypt(TheLoginKey, scrypt(TestUsername, password)),
                 !.stash.passwordBox = Some(encrypt(TheLoginKey, scrypt(TestUsername, password))),
                 !.stash.passwordAuth = Some(scrypt(TestUsername, password))],
              Result("passwordSetup", password, TRUE, TRUE, ""),
              [authState.set EXCEPT !.password = password])
       ELSE Outcome(Dev, Result("passwordSetup", password, FALSE, TRUE, "network"),
                    authState.set)
  /\ AuthFrame

\* account.passwordSetup: a kit that rewrites the proof and re-wraps the
\* login key, on the server, in the stash and in the login.
passwordSetup(password) ==
  /\ LoggedIn
  /\ IF Dev.network
       THEN Outcome(
              [Dev EXCEPT
                 !.srv.passwordAuth = scrypt(TestUsername, password),
                 !.srv.passwordBox = encrypt(TheLoginKey, scrypt(TestUsername, password)),
                 !.stash.passwordBox = Some(encrypt(TheLoginKey, scrypt(TestUsername, password))),
                 !.stash.passwordAuth = Some(scrypt(TestUsername, password)),
                 !.session = Session(Get(Dev.session).loginKey,
                                     Some(scrypt(TestUsername, password)))],
              Result("passwordSetup", password, TRUE, TRUE, ""),
              [authState.set EXCEPT !.password = password])
       ELSE Outcome(Dev, Result("passwordSetup", password, FALSE, TRUE, "network"),
                    authState.set)
  /\ AuthFrame

\* The stretch-derived check of a password against the cached proof.
PasswordMatches(login, password) ==
  login.passwordAuth = Some(scrypt(TestUsername, password))

\* account.passwordOk, once the proof is cached in the login.
passwordOk(password) ==
  /\ LoggedIn
  /\ ~IsNull(Get(Dev.session).passwordAuth)
  /\ Outcome(Dev,
             Result("passwordOk", password, PasswordMatches(Get(Dev.session), password),
                    FALSE, ""),
             authState.set)
  /\ AuthFrame

\* context.loginWithPassword: offline from the cached box, else by the server.
loginWithPassword(password) ==
  /\ LET key == scrypt(TestUsername, password)
         offline == ~IsNull(Dev.stash.passwordBox)
         box == IF offline THEN Get(Dev.stash.passwordBox) ELSE Dev.srv.passwordBox
         reached == ~offline /\ Dev.network
         good == IF offline THEN ~IsNull(decrypt(box, key))
                 ELSE reached /\ Dev.srv.passwordAuth = key
     IN IF good
          THEN Outcome(
                 [Dev EXCEPT !.session = Session(Get(decrypt(box, key)), Some(key)),
                             !.stash.passwordBox = Some(box),
                             !.stash.passwordAuth = Some(key)],
                 [Result("loginWithPassword", password, TRUE, ~offline, "")
                    EXCEPT !.key = decrypt(box, key)],
                 authState.set)
          ELSE Outcome(Dev,
                 Result("loginWithPassword", password, FALSE, ~offline,
                        IF ~offline /\ ~Dev.network THEN "network" ELSE "credentials"),
                 authState.set)
  /\ AuthFrame

\* The PIN box: the login key wrapped under the key stretched from the PIN.
PinBox(login, pin) == encrypt(login.loginKey, scrypt(TestUsername, pin))

\* pinSetup that reports success without caching the box.
pinSetupNotCached(pin) ==
  /\ LoggedIn
  /\ Outcome(Dev, Result("pinSetup", pin, TRUE, FALSE, ""),
             [authState.set EXCEPT !.pin = Some(pin)])
  /\ AuthFrame

\* account.pinSetup: caches the PIN box in the stash.
pinSetup(pin) ==
  /\ LoggedIn
  /\ Outcome([Dev EXCEPT !.stash.pinBox = Some(PinBox(Get(Dev.session), pin))],
             Result("pinSetup", pin, TRUE, FALSE, ""),
             [authState.set EXCEPT !.pin = Some(pin)])
  /\ AuthFrame

\* context.pinExists
pinExists ==
  /\ Outcome(Dev, Result("pinExists", <<>>, ~IsNull(Dev.stash.pinBox), FALSE, ""),
             authState.set)
  /\ AuthFrame

\* context.loginWithPIN: unwraps the cached box, without the server.
loginWithPIN(pin) ==
  /\ IF IsNull(Dev.stash.pinBox)
       THEN Outcome(Dev, Result("loginWithPIN", pin, FALSE, FALSE, "PIN not set up on this device"),
                    authState.set)
       ELSE LET opened == decrypt(Get(Dev.stash.pinBox), scrypt(TestUsername, pin))
            IN IF IsNull(opened)
                 THEN Outcome(Dev, Result("loginWithPIN", pin, FALSE, FALSE, "credentials"),
                              authState.set)
                 ELSE Outcome([Dev EXCEPT !.session = Session(Get(opened), Dev.stash.passwordAuth)],
                              [Result("loginWithPIN", pin, TRUE, FALSE, "") EXCEPT !.key = opened],
                              authState.set)
  /\ AuthFrame


\* A record whose questions are stored last first.
Recovery2RecordReversed(login, key, questions, answers) ==
  [ id |-> recovery2Id(key, TestUsername),
    questions |-> encrypt([i \in DOMAIN questions |-> questions[Len(questions) + 1 - i]], key),
    auth |-> recovery2Auth(key, answers),
    box |-> encrypt(login.loginKey, recovery2UnlockKey(key, answers)) ]

\* What recovery2Set stores on the server: the questions readable with the
\* recovery key, the proof of the answers, and the login key wrapped under
\* the key derived from the answers.
Recovery2Record(login, key, questions, answers) ==
  [ id |-> recovery2Id(key, TestUsername),
    questions |-> encrypt(questions, key),
    auth |-> recovery2Auth(key, answers),
    box |-> encrypt(login.loginKey, recovery2UnlockKey(key, answers)) ]

\* account.recovery2Set: a kit; resolves to the new recovery key.
recovery2Set(questions, answers, key) ==
  /\ LoggedIn
  /\ IF Dev.network
       THEN Outcome(
              [Dev EXCEPT
                 !.srv.recovery2 = Some(Recovery2Record(Get(Dev.session), key, questions, answers)),
                 !.stash.recovery2Key = Some(key)],
              [Result("recovery2Set", answers, TRUE, TRUE, "") EXCEPT !.r2 = Some(key)],
              [authState.set EXCEPT !.recovery2 =
                 Some([key |-> key, questions |-> questions, answers |-> answers])])
       ELSE Outcome(Dev, Result("recovery2Set", answers, FALSE, TRUE, "network"),
                    authState.set)
  /\ AuthFrame

\* The server's record for a recovery key and username, if it has one.
Recovery2Lookup(srv, key, username) ==
  IF IsNull(srv.recovery2) THEN Absent
  ELSE IF Get(srv.recovery2).id = recovery2Id(key, username) THEN srv.recovery2
  ELSE Absent

\* context.fetchRecovery2Questions
fetchRecovery2Questions(key) ==
  /\ LET found == Recovery2Lookup(Dev.srv, key, TestUsername)
     IN IF Dev.network /\ ~IsNull(found)
          THEN Outcome(Dev,
                 [Result("fetchRecovery2Questions", <<>>, TRUE, TRUE, "")
                    EXCEPT !.r2 = Some(key),
                           !.questions = decrypt(Get(found).questions, key)],
                 authState.set)
          ELSE Outcome(Dev,
                 [Result("fetchRecovery2Questions", <<>>, FALSE, TRUE,
                         IF Dev.network THEN "credentials" ELSE "network")
                    EXCEPT !.r2 = Some(key)],
                 authState.set)
  /\ AuthFrame

\* context.loginWithRecovery2: serverLogin with the proof of the answers; the
\* login key is unlocked from the box of the reply.
loginWithRecovery2(key, answers) ==
  /\ LET found == Recovery2Lookup(Dev.srv, key, TestUsername)
         good == /\ Dev.network
                 /\ ~IsNull(found)
                 /\ Get(found).auth = recovery2Auth(key, answers)
     IN IF good
          THEN LET opened == decrypt(Get(found).box, recovery2UnlockKey(key, answers))
               IN Outcome(
                    [Dev EXCEPT !.session = Session(Get(opened), Some(Dev.srv.passwordAuth)),
                                !.stash.passwordBox = Some(Dev.srv.passwordBox),
                                !.stash.passwordAuth = Some(Dev.srv.passwordAuth),
                                !.stash.recovery2Key = Some(key)],
                    [Result("loginWithRecovery2", answers, TRUE, TRUE, "")
                       EXCEPT !.r2 = Some(key), !.key = opened],
                    authState.set)
          ELSE Outcome(Dev,
                 [Result("loginWithRecovery2", answers, FALSE, TRUE,
                         IF Dev.network THEN "credentials" ELSE "network")
                    EXCEPT !.r2 = Some(key)],
                 authState.set)
  /\ AuthFrame

\* The session ends.
logout ==
  /\ LoggedIn
  /\ Outcome([Dev EXCEPT !.session = Absent], Result("logout", <<>>, TRUE, FALSE, ""),
             authState.set)
  /\ AuthFrame

\* The local stash data other than the PIN box is cleared, between sessions.
clearNonPinStash ==
  /\ ~LoggedIn
  /\ Outcome([Dev EXCEPT !.stash.passwordBox = Absent, !.stash.passwordAuth = Absent,
                         !.stash.recovery2Key = Absent],
             Result("clearNonPinStash", <<>>, TRUE, FALSE, ""), authState.set)
  /\ AuthFrame

\* The network comes and goes.
setNetwork(up) ==
  /\ Dev.network # up
  /\ Outcome([Dev EXCEPT !.network = up], Result("setNetwork", <<>>, TRUE, FALSE, ""),
             authState.set)
  /\ AuthFrame

NextAuth ==
  \/ \E password \in Passwords : passwordSetup(password)
  \/ \E password \in Passwords : passwordOk(password)
  \/ \E password \in Passwords : loginWithPassword(password)
  \/ \E pin \in Pins : pinSetup(pin)
  \/ pinExists
  \/ \E pin \in Pins : loginWithPIN(pin)
  \/ \E q \in QuestionLists, a \in AnswerLists, k \in Recovery2Keys : recovery2Set(q, a, k)
  \/ \E k \in Recovery2Keys : fetchRecovery2Questions(k)
  \/ \E k \in Recovery2Keys, a \in AnswerLists : loginWithRecovery2(k, a)
  \/ logout
  \/ clearNonPinStash
  \/ \E up \in BOOLEAN : setNetwork(up)

SpecAuth == InitAuth /\ [][NextAuth]_vars

----------------------------------------------------------------------------
\* The stash node of repairOtp, over the stash trees of the data model.

NodeIds == <<"id0", "id1", "id2", "id3", "id4", "id5">>
AppIds == {"a", "b"}

\* The nodes on the path from node j up to the root, j included.
RECURSIVE Ancestors(_, _)
Ancestors(parent, j) == IF j = 0 THEN {} ELSE {j} \cup Ancestors(parent, parent[j])

\* Parent indices of the trees of n nodes listed in pre-order (root, then
\* the children in order): each node hangs below the node before it or
\* below one of that node's ancestors.
TreeShapes(n) ==
  {parent \in [1..n -> 0..(n - 1)] :
     /\ parent[1] = 0
     /\ \A i \in 2..n : parent[i] \in Ancestors(parent, i - 1)}

\* appId is unique among siblings; the root has the top-level app id.
AppIdsOk(parent, appId) ==
  /\ appId[1] = ""
  /\ \A i \in DOMAIN parent : i > 1 => appId[i] \in AppIds
  /\ \A i, j \in DOMAIN parent :
       (i # j /\ parent[i] = parent[j]) => appId[i] # appId[j]

ShapedStash(parent, appId) ==
  [i \in DOMAIN parent |->
     [ loginId |-> NodeIds[i], appId |-> appId[i], parent |-> parent[i],
       otpKey |-> Absent, otpTimeout |-> Absent, otpResetDate |-> Absent,
       lastLogin |-> Absent ]]

ShapedTree(parent, appId) ==
  [i \in DOMAIN parent |->
     [ loginId |-> NodeIds[i], appId |-> appId[i], parent |-> parent[i],
       userId |-> <<"b64", "scrypt", "a", "l">>, username |-> Some(<<"a", "l">>),
       otpKey |-> Absent, otpTimeout |-> Absent, otpResetDate |-> Absent,
       passwordAuth |-> Some(<<"auth">>), lastLogin |-> Absent ]]

\* An account is logged in on one node of the tree; the stash mirrors the tree.
InitLocate ==
  /\ \E n \in 1..MaxNodes :
       \E parent \in TreeShapes(n), appId \in [1..n -> AppIds \cup {""}], at \in 1..n :
         /\ AppIdsOk(parent, appId)
         /\ loginTree = ShapedTree(parent, appId)
         /\ stashTree = ShapedStash(parent, appId)
         /\ located = [called |-> FALSE, login |-> at, byId |-> Absent, byAppId |-> Absent]
  /\ server = [otpKey |-> Absent, otpTimeout |-> Absent, otpResetDate |-> Absent]
  /\ calls = [p \in Procs |-> IdleCall]
  /\ lastOk = "none"
  /\ opts = NoOpts
  /\ otpResult = NoResult
  /\ authState = NoAuth
  /\ fetchState = NoFetch
  /\ root = NoRoot

\* ai.props.state.accounts[accountId].login
AccountLogin == loginTree[located.login]

\* otp.js: getStashById(ai, login.loginId).stash
StashByLoginId(login) == searchTree(stashTree, "loginId", login.loginId)

\* part_001: searchTree(stashTree, stash => stash.appId === login.appId)
StashByAppId(login) == searchTree(stashTree, "appId", login.appId)

LocateByLoginId ==
  /\ IsNull(located.byId)
  /\ located' = [located EXCEPT !.called = TRUE, !.byId = Some(StashByLoginId(AccountLogin))]
  /\ UNCHANGED <<loginTree, stashTree, server, calls, lastOk, opts, otpResult, authState, fetchState, root>>

LocateByAppId ==
  /\ IsNull(located.byAppId)
  /\ located' = [located EXCEPT !.called = TRUE, !.byAppId = Some(StashByAppId(AccountLogin))]
  /\ UNCHANGED <<loginTree, stashTree, server, calls, lastOk, opts, otpResult, authState, fetchState, root>>

NextLocate == LocateByLoginId \/ LocateByAppId

SpecLocate == InitLocate /\ [][NextLocate]_vars

----------------------------------------------------------------------------
\* fetchCors and extractHeaders of src/unnamed/part_002 (react-native io).

CR == "\r"
LF == "\n"

\* String.prototype.toLowerCase on the characters in use.
toLowerCase(c) ==
  CASE c = "A" -> "a" [] c = "C" -> "c" [] c = "T" -> "t" [] c = "X" -> "x" [] OTHER -> c
LowerString(str) == [i \in DOMAIN str |-> toLowerCase(str[i])]

\* str.indexOf of a two-character pattern: the first position, 0 for -1.
IndexOf2(str, a, b) ==
  LET hits == {i \in 1..(Len(str) - 1) : str[i] = a /\ str[i + 1] = b}
  IN IF hits = {} THEN 0 ELSE Min(hits)

\* headers.split('\r\n')
RECURSIVE SplitCRLF(_)
SplitCRLF(str) ==
  LET i == IndexOf2(str, CR, LF)
  IN IF i = 0 THEN <<str>>
     ELSE <<SubSeq(str, 1, i - 1)>> \o SplitCRLF(SubSeq(str, i + 2, Len(str)))

\* out[name] = value
PutHeader(out, name, value) ==
  [k \in DOMAIN out \cup {name} |-> IF k = name THEN value ELSE out[k]]

NoHeaders == [k \in {} |-> <<>>]

\* The loop of extractHeaders over the pairs, from the first on.
RECURSIVE ExtractPairs(_, _)
ExtractPairs(pairs, out) ==
  IF pairs = <<>> THEN out
  ELSE LET pair == Head(pairs)
           index == IndexOf2(pair, ":", " ")
       IN IF index = 0
            THEN ExtractPairs(Tail(pairs), out)
            ELSE ExtractPairs(Tail(pairs),
                   PutHeader(out, LowerString(SubSeq(pair, 1, index - 1)),
                             SubSeq(pair, index + 2, Len(pair))))

extractHeaders(headers) == ExtractPairs(SplitCRLF(headers), NoHeaders)

\* What the XMLHttpRequest may report: header lines as the server sent them.
HeaderLine(name, value) == name \o <<":", " ">> \o value
ResponseLines ==
  { <<>>,
    << HeaderLine(<<"C", "T">>, <<"j">>) >>,
    << HeaderLine(<<"C", "T">>, <<"j">>), HeaderLine(<<"X">>, <<"A", ":", " ", "b">>) >>,
    << HeaderLine(<<"c", "t">>, <<"1">>), HeaderLine(<<"C", "T">>, <<"2">>) >>,
    << <<"X", ":", "b">>, HeaderLine(<<"x">>, <<"T">>) >> }

\* xhr.getAllResponseHeaders(): the lines, each followed by CRLF.
RECURSIVE JoinLines(_)
JoinLines(lines) ==
  IF lines = <<>> THEN <<>> ELSE Head(lines) \o <<CR, LF>> \o JoinLines(Tail(lines))

Statuses == {200, 404, 500}
Bodies == {<<"o", "k">>, <<>>}
Uris == {<<"u", "1">>}

\* A promise settles once: resolve and reject on a settled promise do nothing.
PendingPromise == [state |-> "pending", value |-> Absent, error |-> Absent, settled |-> 0]
resolve(promise, value) ==
  IF promise.state = "pending"
    THEN [promise EXCEPT !.state = "resolved", !.value = Some(value), !.settled = @ + 1]
    ELSE promise
reject(promise, error) ==
  IF promise.state = "pending"
    THEN [promise EXCEPT !.state = "rejected", !.error = Some(error), !.settled = @ + 1]
    ELSE promise

NetworkError(uri) == [name |-> "NetworkError", message |-> <<"Could not reach ">> \o uri]

handleError(f) == [f EXCEPT !.promise = reject(f.promise, NetworkError(f.uri))]

\* handleLoad that rejects when the server answers with an error status.
handleLoadChecksStatus(f) ==
  IF f.xhr.status >= 400
    THEN [f EXCEPT !.promise = reject(f.promise, NetworkError(f.uri))]
    ELSE [f EXCEPT !.promise =
            resolve(f.promise,
                    [ body |-> f.xhr.response,
                      headers |-> extractHeaders(IF IsNull(f.xhr.headers) THEN <<>>
                                                 ELSE Get(f.xhr.headers)),
                      status |-> f.xhr.status ])]

handleLoad(f) ==
  [f EXCEPT !.promise =
     resolve(f.promise,
             [ body |-> f.xhr.response,
               headers |-> extractHeaders(IF IsNull(f.xhr.headers) THEN <<>>
                                          ELSE Get(f.xhr.headers)),
               status |-> f.xhr.status ])]

FetchFrame ==
  UNCHANGED <<loginTree, stashTree, server, calls, lastOk, opts, otpResult, authState,
              located, root>>

\* fetchCors(uri, opts): opens the request, installs the handlers, sets the
\* request headers and sends the body.
fetchCors(uri, o) ==
  /\ fetchState.pc \in {"none", "settled"}
  /\ fetchState' =
       [ pc |-> "sent", uri |-> uri,
         method |-> IF IsNull(o.method) THEN "GET" ELSE Get(o.method),
         requestHeaders |-> IF IsNull(o.headers) THEN NoHeaders ELSE Get(o.headers),
         sent |-> <<o.body>>,
         xhr |-> [status |-> 0, headers |-> Absent, response |-> <<>>, lines |-> <<>>],
         event |-> "none",
         promise |-> PendingPromise ]
  /\ FetchFrame

\* The transfer completed: xhr.onload.
OnLoad(status, lines, withHeaders, body) ==
  /\ fetchState.pc = "sent"
  /\ fetchState' =
       handleLoad([fetchState EXCEPT
         !.pc = "settled", !.event = "load",
         !.xhr = [ status |-> status,
                   headers |-> IF withHeaders THEN Some(JoinLines(lines)) ELSE Absent,
                   response |-> body,
                   lines |-> IF withHeaders THEN lines ELSE <<>> ]])
  /\ FetchFrame

\* The transport failed: xhr.onerror.
OnError ==
  /\ fetchState.pc = "sent"
  /\ fetchState' = handleError([fetchState EXCEPT !.pc = "settled", !.event = "error"])
  /\ FetchFrame

\* The request timed out: xhr.ontimeout.
OnTimeout ==
  /\ fetchState.pc = "sent"
  /\ fetchState' = handleError([fetchState EXCEPT !.pc = "settled", !.event = "timeout"])
  /\ FetchFrame

FetchOptions ==
  [ method : Opt({"POST"}), body : Opt({<<"b">>}),
    headers : Opt({[k \in {<<"a">>} |-> <<"1">>]}) ]

InitFetch ==
  /\ fetchState = NoFetch
  /\ loginTree = << >> /\ stashTree = << >>
  /\ server = [otpKey |-> Absent, otpTimeout |-> Absent, otpResetDate |-> Absent]
  /\ calls = [p \in Procs |-> IdleCall]
  /\ lastOk = "none"
  /\ opts = NoOpts
  /\ otpResult = NoResult
  /\ authState = NoAuth
  /\ located = NoLocated
  /\ root = NoRoot

NextFetch ==
  \/ \E uri \in Uris, o \in FetchOptions : fetchCors(uri, o)
  \/ \E status \in Statuses, lines \in ResponseLines, withHeaders \in BOOLEAN,
        body \in Bodies : OnLoad(status, lines, withHeaders, body)
  \/ OnError
  \/ OnTimeout

SpecFetch == InitFetch /\ [][NextFetch]_vars

----------------------------------------------------------------------------
\* makeContext and closeEdge of root.ts (src/unnamed/part_000).

Makers == 1..NumMakers
ContextIds == 1..MaxContexts

IdleMaker == [pc |-> "idle", err |-> "", ctx |-> Absent, sawClose |-> FALSE,
              closedAfter |-> FALSE]

MakerInFlight(m) == root.makers[m].pc \in {"readHint", "createHint", "loadStashes"}

\* Contexts that exist and makeContext calls that may still create one.
Created == {c \in ContextIds : root.contexts[c] # "none"}

RootFrame ==
  UNCHANGED <<loginTree, stashTree, server, calls, lastOk, opts, otpResult, authState,
              located, fetchState>>

InitRoot ==
  /\ root = [ allContexts |-> <<>>,
              contexts |-> [c \in ContextIds |-> "none"],
              makers |-> [m \in Makers |-> IdleMaker],
              returned |-> 0,
              last |-> "none" ]
  /\ loginTree = << >> /\ stashTree = << >>
  /\ server = [otpKey |-> Absent, otpTimeout |-> Absent, otpResetDate |-> Absent]
  /\ calls = [p \in Procs |-> IdleCall]
  /\ lastOk = "none"
  /\ opts = NoOpts
  /\ otpResult = NoResult
  /\ authState = NoAuth
  /\ located = NoLocated
  /\ fetchState = NoFetch

\* makeContext up to its first await: without an API key it throws, else it
\* creates the redux store and the log and reads rateHintCache.json.
makeContext(m, hasApiKey) ==
  /\ ~MakerInFlight(m)
  /\ Cardinality(Created) + Cardinality({n \in Makers : MakerInFlight(n)}) < MaxContexts
  /\ root' = [root EXCEPT
       !.makers[m] = IF hasApiKey
                       THEN [IdleMaker EXCEPT !.pc = "readHint"]
                       ELSE [IdleMaker EXCEPT !.pc = "failed", !.err = "No API key provided"],
       !.last = "makeContext"]
  /\ RootFrame

\* rateHintCache.json was read and parsed.
ReadHintOk(m) ==
  /\ root.makers[m].pc = "readHint"
  /\ root' = [root EXCEPT !.makers[m].pc = "loadStashes", !.last = "makeContext"]
  /\ RootFrame

\* The file does not exist (ENOENT): it is created.
ReadHintMissing(m) ==
  /\ root.makers[m].pc = "readHint"
  /\ root' = [root EXCEPT !.makers[m].pc = "createHint", !.last = "makeContext"]
  /\ RootFrame

\* Any other error of the read or of JSON.parse is thrown.
ReadHintError(m) ==
  /\ root.makers[m].pc = "readHint"
  /\ root' = [root EXCEPT !.makers[m].pc = "failed", !.makers[m].err = "rateHintCache read",
                          !.last = "makeContext"]
  /\ RootFrame

CreateHintOk(m) ==
  /\ root.makers[m].pc = "createHint"
  /\ root' = [root EXCEPT !.makers[m].pc = "loadStashes", !.last = "makeContext"]
  /\ RootFrame

CreateHintError(m) ==
  /\ root.makers[m].pc = "createHint"
  /\ root' = [root EXCEPT !.makers[m].pc = "failed", !.makers[m].err = "rateHintCache create",
                          !.last = "makeContext"]
  /\ RootFrame

LoadStashesError(m) ==
  /\ root.makers[m].pc = "loadStashes"
  /\ root' = [root EXCEPT !.makers[m].pc = "failed", !.makers[m].err = "loadStashes",
                          !.last = "makeContext"]
  /\ RootFrame

\* The stashes are loaded: INIT is dispatched, the pixie tree started, and
\* the context pushed onto allContexts and returned, without another await.
LoadStashesOk(m) ==
  /\ root.makers[m].pc = "loadStashes"
  /\ LET out == Min(ContextIds \ Created)
     IN root' = [root EXCEPT
          !.contexts[out] = "open",
          !.allContexts = Append(@, out),
          !.makers[m].pc = "done",
          !.makers[m].ctx = Some(out),
          !.returned = @ + 1,
          !.last = "makeContext"]
  /\ RootFrame

Registered == {root.allContexts[i] : i \in DOMAIN root.allContexts}

\* What closeEdge leaves of the makeContext calls: those in flight go on.
AfterClose(maker) ==
  IF maker.pc \in {"readHint", "createHint", "loadStashes"}
    THEN [maker EXCEPT !.sawClose = TRUE]
  ELSE IF maker.pc = "done" THEN [maker EXCEPT !.closedAfter = TRUE]
  ELSE maker

\* closeEdge that awaits each close without catching a rejection: it stops
\* at the first close that rejects.
closeEdgeStopsAtReject(rejects) ==
  /\ rejects \subseteq Registered
  /\ LET stop == {i \in DOMAIN root.allContexts : root.allContexts[i] \in rejects}
         reached == IF stop = {} THEN Registered
                    ELSE {root.allContexts[i] : i \in 1..Min(stop)}
     IN root' = [root EXCEPT
          !.contexts = [c \in ContextIds |->
                          IF c \in reached
                            THEN IF c \in rejects THEN "closeRejected" ELSE "closed"
                            ELSE root.contexts[c]],
          !.allContexts = IF stop = {} THEN <<>> ELSE @,
          !.makers = [m \in Makers |-> AfterClose(root.makers[m])],
          !.last = "closeEdge"]
  /\ RootFrame

\* closeEdge: close is invoked on every context of allContexts, a rejection
\* is swallowed, and allContexts is replaced by an empty list.
closeEdge(rejects) ==
  /\ rejects \subseteq Registered
  /\ root' = [root EXCEPT
       !.contexts = [c \in ContextIds |->
                       IF c \in Registered
                         THEN IF c \in rejects THEN "closeRejected" ELSE "closed"
                         ELSE root.contexts[c]],
       !.allContexts = <<>>,
       !.makers = [m \in Makers |-> AfterClose(root.makers[m])],
       !.last = "closeEdge"]
  /\ RootFrame

NextRoot ==
  \/ \E m \in Makers, hasApiKey \in BOOLEAN : makeContext(m, hasApiKey)
  \/ \E m \in Makers : ReadHintOk(m)
  \/ \E m \in Makers : ReadHintMissing(m)
  \/ \E m \in Makers : ReadHintError(m)
  \/ \E m \in Makers : CreateHintOk(m)
  \/ \E m \in Makers : CreateHintError(m)
  \/ \E m \in Makers : LoadStashesOk(m)
  \/ \E m \in Makers : LoadStashesError(m)
  \/ \E rejects \in SUBSET ContextIds : closeEdge(rejects)

SpecRoot == InitRoot /\ [][NextRoot]_vars

----------------------------------------------------------------------------
\* Properties.

KitOps == {"enableOtp", "disableOtp", "cancelOtpReset"}
OtpFields(node) == <<node.otpKey, node.otpTimeout, node.otpResetDate>>
NoOtpFields == <<Absent, Absent, Absent>>
Pre(p) == Get(calls[p].pre)

\* C1: when the server request of an enableOtp, disableOtp or cancelOtpReset
\* call fails, the call rejects, and the login tree and the stash are what
\* they were before the call, with no stash write.
C1_ServerFailureChangesNothing ==
  \A p \in Procs :
    (calls[p].op \in KitOps /\ calls[p].err = "server") =>
      /\ calls[p].pc = "failed"
      /\ ~calls[p].wrote
      /\ loginTree = Pre(p).tree
      /\ stashTree = Pre(p).stash

\* An enableOtp on an account without a secret was refused by the server.
C1_Witness ==
  \E p \in Procs :
    /\ calls[p].op = "enableOtp" /\ calls[p].pc = "failed" /\ calls[p].err = "server"
    /\ IsNull(Pre(p).tree[1].otpKey)
    /\ Len(calls[p].sent) = 1

\* C2: with calls made one after another, whenever an enableOtp, disableOtp
\* or cancelOtpReset call has resolved, the stash node and the tree node of
\* the kit's loginId hold the same otpKey, otpTimeout and otpResetDate.
C2_StashMirrorsTree ==
  \A p \in Procs :
    (calls[p].op \in KitOps /\ calls[p].pc = "done") =>
      OtpFields(NodeById(stashTree, Get(calls[p].kit).loginId))
        = OtpFields(NodeById(loginTree, Get(calls[p].kit).loginId))

\* An enableOtp resolved and a secret is stored.
C2_Witness ==
  \E p \in Procs :
    /\ calls[p].op = "enableOtp" /\ calls[p].pc = "done"
    /\ ~IsNull(loginTree[1].otpKey)
    /\ IsNull(Pre(p).tree[1].otpKey)

InFlight(p) == calls[p].pc \in {"server", "stash", "tree"}

\* C3: overlapping kit operations on one loginId are serialized: at most
\* one of them is between its server request and its tree merge, and once
\* all have resolved, the server's OTP configuration, the stash node and the
\* tree node are those of one kit.
C3_SerializedLastWriter ==
  /\ Cardinality({p \in Procs : InFlight(p)}) <= 1
  /\ (\A p \in Procs : calls[p].pc = "done" /\ Len(calls[p].sent) = 1) =>
       /\ OtpFields(stashTree[1]) = OtpFields(loginTree[1])
       /\ server.otpKey = loginTree[1].otpKey
       /\ server.otpTimeout = loginTree[1].otpTimeout

\* The second half of C3 alone: what the missing serialization leads to.
C3_LastWriterOnly ==
  (\A p \in Procs : calls[p].op = "enableOtp" /\ calls[p].pc = "done") =>
    /\ OtpFields(stashTree[1]) = OtpFields(loginTree[1])
    /\ server.otpKey = loginTree[1].otpKey

\* C4: after a successful enableOtp followed by a successful disableOtp the
\* tree node and the stash node have no otpKey, no otpTimeout and no
\* otpResetDate, and getLoginOtp on the tree returns nothing.
C4_EnableThenDisableClears ==
  \A p \in Procs :
    (calls[p].op = "disableOtp" /\ calls[p].pc = "done"
       /\ calls[p].after = "enableOtp") =>
      /\ OtpFields(loginTree[1]) = NoOtpFields
      /\ OtpFields(stashTree[1]) = NoOtpFields
      /\ getLoginOtp(loginTree[1]) = Absent

\* A disableOtp resolved right after an enableOtp that had stored a secret.
C4_Witness ==
  \E p \in Procs :
    /\ calls[p].op = "disableOtp" /\ calls[p].pc = "done"
    /\ calls[p].after = "enableOtp"
    /\ ~IsNull(Pre(p).tree[1].otpKey) /\ ~IsNull(Pre(p).stash[1].otpTimeout)

CancelUntouched(p) ==
  /\ calls[p].pc = "failed" /\ calls[p].err = "config"
  /\ calls[p].sent = <<>>
  /\ ~calls[p].wrote
  /\ loginTree = Pre(p).tree
  /\ stashTree = Pre(p).stash

C6_DisableSendsDelete ==
  \A p \in Procs :
    (calls[p].op = "disableOtp") =>
      /\ Len(calls[p].sent) = 1
      /\ calls[p].sent[1].method = "DELETE"
      /\ calls[p].sent[1].path = OtpPath

AllDigits(s) == \A i \in DOMAIN s : s[i] \in DigitChars

\* C7: getStashOtp returns a short numeric code of the options unchanged;
\* otherwise the TOTP code of the key in the options; otherwise that of the
\* stash's otpKey; otherwise nothing.
C7_ResolutionOrder ==
  otpResult.called =>
    otpResult.value =
      IF ~IsNull(opts.otp) /\ AllDigits(Get(opts.otp)) /\ Len(Get(opts.otp)) < 16
        THEN opts.otp
      ELSE IF ~IsNull(opts.otp) THEN Some(totp(Get(opts.otp)))
      ELSE IF ~IsNull(opts.otpKey) THEN Some(totp(Get(opts.otpKey)))
      ELSE IF ~IsNull(stashTree[1].otpKey) THEN Some(totp(Get(stashTree[1].otpKey)))
      ELSE Absent

RepairSucceeded(p) ==
  calls[p].op = "repairOtp" /\ calls[p].pc = "done" /\ Len(calls[p].sent) = 1

\* C8: after a repairOtp with the server's secret has succeeded on an
\* account whose stored otpKey was another one, the tree and the stash hold
\* the candidate key and getLoginOtp computes its codes from it.
C8_RepairStoresCandidate ==
  \A p \in Procs :
    (/\ RepairSucceeded(p)
     /\ calls[p].cand = server.otpKey
     /\ ~IsNull(Pre(p).tree[1].otpKey)
     /\ Pre(p).tree[1].otpKey # calls[p].cand) =>
      /\ loginTree[1].otpKey = calls[p].cand
      /\ stashTree[1].otpKey = calls[p].cand
      /\ getLoginOtp(loginTree[1]) = Some(totp(Get(calls[p].cand)))

\* C9: a successful repairOtp leaves the stash's lastLogin as it was, set
\* or not.
C9_RepairKeepsLastLogin ==
  \A p \in Procs :
    RepairSucceeded(p) => stashTree[1].lastLogin = Pre(p).stash[1].lastLogin

\* C10: resetOtp sends one DELETE request to the OTP path whose body is the
\* hashed username as userId and the reset token, resolves to the reset date
\* the server reported, and changes neither stash nor tree.
C10_ResetOtpRequest ==
  \A p \in Procs :
    (calls[p].op = "resetOtp") =>
      /\ Len(calls[p].sent) = 1
      /\ calls[p].sent[1].method = "DELETE"
      /\ calls[p].sent[1].path = OtpPath
      /\ LET body == Get(calls[p].sent[1].data)
         IN /\ DOMAIN body = {"userId", "otpResetAuth"}
            /\ body.userId = base64Stringify(hashUsername(calls[p].username))
            /\ body.userId # calls[p].username
            /\ body.otpResetAuth = calls[p].token
      /\ (calls[p].pc = "done" =>
            /\ calls[p].ret = Some(Get(calls[p].reply).otpResetDate)
            /\ calls[p].ret = server.otpResetDate)
      /\ (calls[p].pc = "failed" => IsNull(calls[p].ret))
      /\ ~calls[p].wrote
      /\ loginTree = Pre(p).tree
      /\ stashTree = Pre(p).stash

\* A resetOtp resolved with the server's date.
C10_Witness ==
  \E p \in Procs :
    /\ calls[p].op = "resetOtp" /\ calls[p].pc = "done"
    /\ ~IsNull(calls[p].ret)

\* C11: when the server answers the login attempt of repairOtp with "OTP
\* required", the call rejects with an OtpError, which is not the generic
\* failure, carrying the reset-pending date of the payload when there is
\* one, and the tree and the stash are what they were before the call: no
\* lastLogin stamp and no stash write.
C11_OtpRequiredChangesNothing ==
  \A p \in Procs :
    (calls[p].op = "repairOtp" /\ ~IsNull(calls[p].reply)
       /\ ~ServerAcceptsLogin(Get(calls[p].reply), Get(calls[p].sent[1].data))) =>
      /\ calls[p].pc = "failed"
      /\ calls[p].err = "otp" /\ calls[p].err # "server"
      /\ calls[p].resetDate = Get(calls[p].reply).otpResetDate
      /\ calls[p].resetDate = Pre(p).server.otpResetDate
      /\ ~calls[p].wrote
      /\ loginTree = Pre(p).tree
      /\ stashTree = Pre(p).stash
      /\ stashTree[1].lastLogin = Pre(p).stash[1].lastLogin

\* A repairOtp with a wrong candidate key was answered "OTP required" while
\* a reset was pending.
C11_Witness ==
  \E p \in Procs :
    /\ calls[p].op = "repairOtp" /\ calls[p].err = "otp"
    /\ ~IsNull(calls[p].resetDate)
    /\ calls[p].cand # server.otpKey

Last == authState.last

\* C12: passwordOk returns true for exactly the password set up last
\* (at account creation or by passwordSetup) and false for every other
\* one, sends no request, and leaves device, session and server as they were.
C12_PasswordOkExact ==
  (~IsNull(Last.pre) /\ Last.op = "passwordOk") =>
    /\ Last.ok = (Last.arg = authState.set.password)
    /\ ~Last.sent
    /\ Dev = Get(Last.pre)

\* passwordOk accepted the password of the account with the network down.
C12_Witness ==
  /\ ~IsNull(Last.pre) /\ Last.op = "passwordOk" /\ Last.ok
  /\ ~Dev.network
  /\ Last.arg = <<"T", "e", "s", "t">>

Recovery2IsSet == ~IsNull(Last.pre) /\ ~IsNull(authState.set.recovery2)
SetRecovery2 == Get(authState.set.recovery2)

\* The login key a password login of the account unlocks.
PasswordLoginKey ==
  decrypt(Dev.srv.passwordBox, scrypt(TestUsername, authState.set.password))

\* C13: once recovery2Set has succeeded and returned a recovery key, and the
\* server can be reached, fetchRecovery2Questions with that key returns the
\* questions as they were set, in the same order; loginWithRecovery2 with
\* that key succeeds exactly when the answers are those set, in the same
\* order, and then unlocks the login key that password login unlocks.
C13_Recovery2RoundTrip ==
  (Recovery2IsSet /\ Get(Last.pre).network /\ Last.r2 = Some(SetRecovery2.key)) =>
    /\ (Last.op = "recovery2Set" => Last.ok)
    /\ (Last.op = "fetchRecovery2Questions" =>
          Last.ok /\ Last.questions = Some(SetRecovery2.questions))
    /\ (Last.op = "loginWithRecovery2" =>
          /\ Last.ok = (Last.arg = SetRecovery2.answers)
          /\ (Last.ok => Last.key = PasswordLoginKey /\ ~IsNull(Last.key)))

\* A recovery2 login with the two different answers in the order set
\* succeeded, after a passwordSetup or not.
C13_Witness ==
  /\ Recovery2IsSet /\ Last.op = "loginWithRecovery2" /\ Last.ok
  /\ SetRecovery2.answers[1] # SetRecovery2.answers[2]
  /\ SetRecovery2.questions = <<"q2", "q1">>

\* The answers given in the other order were turned down.
C13_WitnessOrder ==
  /\ Recovery2IsSet /\ Last.op = "loginWithRecovery2" /\ ~Last.ok
  /\ Get(Last.pre).network /\ Last.r2 = Some(SetRecovery2.key)
  /\ Last.arg = <<SetRecovery2.answers[2], SetRecovery2.answers[1]>>

\* C14: loginWithPIN never sends a request; with the PIN of the last
\* successful pinSetup (or of account creation on this device) it succeeds
\* and unlocks the login key, whether or not the network is reachable and
\* whatever else the stash holds; when no PIN box is cached, which is when
\* pinExists is false, it fails with 'PIN not set up on this device'.
C14_PinLoginOffline ==
  /\ (~IsNull(Last.pre) /\ Last.op = "loginWithPIN") =>
       /\ ~Last.sent
       /\ Dev.srv = Get(Last.pre).srv
       /\ (~IsNull(authState.set.pin) /\ Last.arg = Get(authState.set.pin)) =>
            Last.ok /\ Last.key = PasswordLoginKey /\ LoggedIn
       /\ IsNull(Get(Last.pre).stash.pinBox) =>
            ~Last.ok /\ Last.err = "PIN not set up on this device"
  /\ (~IsNull(Last.pre) /\ Last.op = "pinExists") =>
       Last.ok = ~IsNull(Dev.stash.pinBox)

\* A PIN login succeeded with the network down and nothing but the PIN box
\* in the stash.
C14_Witness ==
  /\ ~IsNull(Last.pre) /\ Last.op = "loginWithPIN" /\ Last.ok
  /\ ~Get(Last.pre).network
  /\ IsNull(Dev.stash.passwordBox) /\ IsNull(Dev.stash.passwordAuth)
  /\ IsNull(Dev.stash.recovery2Key)

\* A PIN login on a device without a PIN box was turned down.
C14_WitnessNoBox ==
  /\ ~IsNull(Last.pre) /\ Last.op = "loginWithPIN"
  /\ Last.err = "PIN not set up on this device"

\* C15: getStashOtp returns the otp of the options verbatim only when it
\* consists solely of decimal digits and is shorter than 16 characters;
\* every other otp value is taken as a secret, and its TOTP code returned.
C15_VerbatimOnlyNumeric ==
  (otpResult.called /\ ~IsNull(opts.otp)) =>
    LET otp == Get(opts.otp)
    IN /\ (otpResult.value = opts.otp) <=> (AllDigits(otp) /\ Len(otp) < 16)
       /\ (~AllDigits(otp) \/ Len(otp) >= 16) => otpResult.value = Some(totp(otp))

EnablePayload(p) == Get(calls[p].sent[1].data)

\* C16: enableOtp sends the tree's own otpKey, normalized, when the tree has
\* one, and a newly drawn secret only when it has none; once it has
\* resolved, tree, stash and server hold the key sent and the timeout sent
\* and no otpResetDate; and an enableOtp that follows a successful enableOtp
\* with the same timeout leaves tree and stash as they were.
C16_EnableReusesKey ==
  \A p \in Procs :
    (calls[p].op = "enableOtp") =>
      /\ Len(calls[p].sent) = 1
      /\ IF IsNull(Pre(p).tree[1].otpKey)
           THEN Get(EnablePayload(p).otpKey) \in Keys
           ELSE EnablePayload(p).otpKey = Some(fixOtpKey(Get(Pre(p).tree[1].otpKey)))
      /\ (calls[p].pc = "done" =>
            /\ OtpFields(loginTree[1])
                 = <<EnablePayload(p).otpKey, EnablePayload(p).otpTimeout, Absent>>
            /\ OtpFields(stashTree[1]) = OtpFields(loginTree[1])
            /\ OtpFields(server) = OtpFields(loginTree[1])
            /\ (calls[p].after = "enableOtp"
                  /\ EnablePayload(p).otpTimeout = Pre(p).tree[1].otpTimeout) =>
                 loginTree = Pre(p).tree /\ stashTree = Pre(p).stash)

\* An enableOtp resolved right after another one had stored a secret.
C16_Witness ==
  \E p \in Procs :
    /\ calls[p].op = "enableOtp" /\ calls[p].pc = "done"
    /\ calls[p].after = "enableOtp"
    /\ Pre(p).tree[1].otpKey \in {Some(k) : k \in Keys}
    /\ EnablePayload(p).otpTimeout = Pre(p).tree[1].otpTimeout

\* An enableOtp resolved on a tree whose secret was not in canonical form.
C16_WitnessNormalized ==
  \E p \in Procs :
    /\ calls[p].op = "enableOtp" /\ calls[p].pc = "done"
    /\ Pre(p).tree[1].otpKey \in {Some(k) : k \in RawKeys}
    /\ loginTree[1].otpKey # Pre(p).tree[1].otpKey

RepairBody(p) == Get(calls[p].sent[1].data)

C19_RepairGuards ==
  \A p \in Procs :
    (calls[p].op = "repairOtp") =>
      /\ (Len(calls[p].sent) = 1 =>
            ~AccountMissing(calls[p].account) /\ ~IsNull(Pre(p).tree[1].passwordAuth))
      /\ (~AccountMissing(calls[p].account) /\ IsNull(Pre(p).tree[1].passwordAuth)) =>
           /\ calls[p].pc = "failed" /\ calls[p].err = "no-password"
           /\ calls[p].sent = <<>> /\ ~calls[p].wrote
           /\ loginTree = Pre(p).tree /\ stashTree = Pre(p).stash
      /\ AccountMissing(calls[p].account) =>
           /\ calls[p].pc = "done" /\ calls[p].err = ""
           /\ calls[p].sent = <<>> /\ ~calls[p].wrote
           /\ loginTree = Pre(p).tree /\ stashTree = Pre(p).stash

\* C20: in every stash tree of the data model, the node repairOtp hands to
\* serverLogin is the one whose loginId is the loginId of the account's
\* login, whether it is looked up by loginId or as the first node in
\* pre-order with the login's appId.
C20_SameStashNode ==
  /\ ~IsNull(located.byId) =>
       stashTree[Get(located.byId)].loginId = AccountLogin.loginId
  /\ ~IsNull(located.byAppId) =>
       /\ Get(located.byAppId) # 0
       /\ stashTree[Get(located.byAppId)].loginId = AccountLogin.loginId
  /\ (~IsNull(located.byId) /\ ~IsNull(located.byAppId)) =>
       located.byId = located.byAppId

\* The lookup by loginId alone.
C20_ByLoginIdOnly ==
  ~IsNull(located.byId) =>
    stashTree[Get(located.byId)].loginId = AccountLogin.loginId

HasSeparator(line) == IndexOf2(line, ":", " ") # 0
NameOf(line) == SubSeq(line, 1, IndexOf2(line, ":", " ") - 1)
ValueOf(line) == SubSeq(line, IndexOf2(line, ":", " ") + 2, Len(line))
Response == Get(fetchState.promise.value)

\* C21: a fetchCors call sends one request and its promise settles at most
\* once; after a transport error or a timeout the promise is rejected with a
\* NetworkError and nothing more is sent; after a completed load it is
\* resolved, whatever the status, with that status, the body, and the
\* headers under their lower-cased names (of two lines with one name the
\* later one).
C21_FetchCorsSettlesOnce ==
  (fetchState.pc # "none") =>
    /\ Len(fetchState.sent) = 1
    /\ fetchState.promise.settled <= 1
    /\ (fetchState.pc = "sent" => fetchState.promise.state = "pending")
    /\ (fetchState.event \in {"error", "timeout"} =>
          /\ fetchState.promise.state = "rejected"
          /\ Get(fetchState.promise.error).name = "NetworkError"
          /\ IsNull(fetchState.promise.value))
    /\ (fetchState.event = "load" =>
          /\ fetchState.promise.state = "resolved"
          /\ IsNull(fetchState.promise.error)
          /\ Response.status = fetchState.xhr.status
          /\ Response.body = fetchState.xhr.response
          /\ LET lines == fetchState.xhr.lines
                 good == {i \in DOMAIN lines : HasSeparator(lines[i])}
             IN /\ DOMAIN Response.headers = {LowerString(NameOf(lines[i])) : i \in good}
                /\ \A k \in DOMAIN Response.headers : k = LowerString(k)
                /\ \A i \in good :
                     (\A j \in good :
                        j > i => LowerString(NameOf(lines[j])) # LowerString(NameOf(lines[i])))
                       => Response.headers[LowerString(NameOf(lines[i]))] = ValueOf(lines[i]))

\* A load with status 404 resolved the promise, the header names lower-cased.
C21_Witness ==
  /\ fetchState.pc = "settled" /\ fetchState.event = "load"
  /\ fetchState.xhr.status = 404
  /\ fetchState.promise.state = "resolved"
  /\ fetchState.xhr.lines = << HeaderLine(<<"c", "t">>, <<"1">>), HeaderLine(<<"C", "T">>, <<"2">>) >>
  /\ Response.headers = [k \in {<<"c", "t">>} |-> <<"2">>]

\* A timeout rejected the promise.
C21_WitnessTimeout ==
  /\ fetchState.pc = "settled" /\ fetchState.event = "timeout"
  /\ fetchState.promise.state = "rejected"

NoDuplicates(q) == \A i, j \in DOMAIN q : q[i] = q[j] => i = j

\* The registry holds, once each, exactly the contexts that makeContext has
\* returned and that no closeEdge has met since.
RegistryExact ==
  /\ NoDuplicates(root.allContexts)
  /\ Registered = {c \in ContextIds : root.contexts[c] = "open"}

\* A makeContext that has not returned a context has created and registered
\* none, so that there are as many contexts as makeContext calls that
\* returned one; a makeContext that failed names its error.
FailedRegistersNothing ==
  /\ \A m \in Makers : root.makers[m].pc # "done" => IsNull(root.makers[m].ctx)
  /\ \A m \in Makers : root.makers[m].pc = "failed" => root.makers[m].err # ""
  /\ Cardinality(Created) = root.returned

\* closeEdge has invoked close on every context it found registered, past
\* the closes that rejected, and left the registry empty.
CloseEdgeClosesAll ==
  root.last = "closeEdge" =>
    /\ root.allContexts = <<>>
    /\ \A c \in Created : root.contexts[c] \in {"closed", "closeRejected"}

\* C22 (as stated): the registry holds exactly the contexts makeContext has
\* returned since the last closeEdge, a failed makeContext registers
\* nothing, closeEdge invokes close on every registered context, goes on
\* past a close that rejects and empties the registry, and a context whose
\* makeContext was in flight when closeEdge ran does not remain open.
C22_NoContextOutlivesCloseEdge ==
  /\ RegistryExact
  /\ FailedRegistersNothing
  /\ CloseEdgeClosesAll
  /\ \A m \in Makers :
       (root.makers[m].pc = "done" /\ root.makers[m].sawClose)
         => root.contexts[Get(root.makers[m].ctx)] # "open"

\* C22 (amended): as above, but a context whose makeContext was in flight
\* when closeEdge ran is registered when makeContext returns and stays open
\* until the next closeEdge; only the contexts returned before a closeEdge
\* have had close invoked by it.
C22_RegistryOfReturnedContexts ==
  /\ RegistryExact
  /\ FailedRegistersNothing
  /\ CloseEdgeClosesAll
  /\ \A m \in Makers :
       root.makers[m].pc = "done" =>
         IF root.makers[m].closedAfter
           THEN root.contexts[Get(root.makers[m].ctx)] \in {"closed", "closeRejected"}
           ELSE /\ root.contexts[Get(root.makers[m].ctx)] = "open"
                /\ Get(root.makers[m].ctx) \in Registered

\* closeEdge has run past a close that rejected while one makeContext had
\* failed and another was in flight, which has since returned its context.
C22_Witness ==
  /\ \E c \in ContextIds : root.contexts[c] = "closeRejected"
  /\ \E c \in ContextIds : root.contexts[c] = "closed"
  /\ \E m \in Makers : root.makers[m].pc = "failed"
  /\ \E m \in Makers : /\ root.makers[m].pc = "done"
                       /\ root.makers[m].sawClose
                       /\ ~root.makers[m].closedAfter
                       /\ root.allContexts = <<Get(root.makers[m].ctx)>>

\* closeEdge has just returned with two contexts registered before it, one
\* of whose close rejected.
C22_WitnessClosed ==
  /\ root.last = "closeEdge"
  /\ Cardinality({c \in ContextIds : root.contexts[c] = "closed"}) >= 1
  /\ Cardinality({c \in ContextIds : root.contexts[c] = "closeRejected"}) >= 1
  /\ root.allContexts = <<>>

====
